---- MODULE Spec2Model ----
(***************************************************************************)
(* Model of clippy_lints/src/init_before_foo.rs: the INIT_BEFORE_FOO lint. *)
(*                                                                         *)
(* check_crate looks up the function carrying the diagnostic item          *)
(* "check_main" and calls check_init on it with an empty call stack.       *)
(* check_init / check_init_inner walk the call graph; for every function   *)
(* with MIR they run the one-bit dataflow analysis SeenInit (do_dataflow)  *)
(* and then scan the basic blocks in index order.                          *)
(*                                                                         *)
(* A MIR body is a sequence of basic blocks; only the terminator of a      *)
(* block matters to the lint (statement_effect is empty).  A terminator is *)
(* a record [kind, callee, targets]:                                       *)
(*   kind    "Call" | "SwitchInt" | "Goto" | "Return"                      *)
(*   callee  a DefId when func.ty is ty::FnDef, FnPtr for any other type   *)
(*           of func, NoCallee for terminators that are not calls          *)
(*   targets the successor blocks                                          *)
(* The span of a terminator is modelled by its location <<def_id, block>>. *)
(***************************************************************************)
EXTENDS Integers, Sequences, FiniteSets, TLC

\* Largest number of basic blocks of an enumerated MIR body.
MaxBlocks == 3

\* The functions of the analysed crate.
DefIds == {"main", "init", "foo", "bar"}

\* func.ty(..).kind is not ty::FnDef: a call through a function pointer.
FnPtr == "fn_ptr"

\* Terminators other than Call have no callee.
NoCallee == "none"

\* #[rustc_diagnostic_item = "check_main"]
main_fn == "main"

\* tcx.is_diagnostic_item(Symbol::intern("init"), def_id)
is_init(def_id) == def_id = "init"

\* Variant: every callee is taken for a FnDef.
is_fn_def_always(callee) == TRUE

\* func.ty(..).kind matches ty::FnDef(def_id, _)
is_fn_def(callee) == callee # FnPtr

\* tcx.is_diagnostic_item(Symbol::intern("foo"), callee_id)
is_foo(callee_id) == callee_id = "foo"

VARIABLES
    optimized_mir,  \* DefId -> MIR body (sequence of terminators)
    mir_available,  \* the DefIds whose MIR is available
    pc,             \* "start" before check_crate has run, "done" after
    lint,           \* what check_crate got from check_init(main_fn, {})
    stack           \* the activations of check_init, outermost first

vars == <<optimized_mir, mir_available, pc, lint, stack>>

----------------------------------------------------------------------------
(* enum InitState *)

InitState_Init == [state |-> "Init", span |-> <<>>]
NotInit == [state |-> "NotInit", span |-> <<>>]
NeedsInit(span) == [state |-> "NeedsInit", span |-> span]

----------------------------------------------------------------------------
(* MIR terminators *)

Call(callee, targets) == [kind |-> "Call", callee |-> callee, targets |-> targets]
SwitchInt(targets) == [kind |-> "SwitchInt", callee |-> NoCallee, targets |-> targets]
Goto(target) == [kind |-> "Goto", callee |-> NoCallee, targets |-> {target}]
Return == [kind |-> "Return", callee |-> NoCallee, targets |-> {}]

\* mir.basic_blocks() of def_id, as the set of block indices (bb0 is 1)
basic_blocks(def_id) == DOMAIN optimized_mir[def_id]

\* bbdata.terminator()
terminator(def_id, block) == optimized_mir[def_id][block]

\* terminator.source_info.span
span_of(def_id, block) == <<def_id, block>>

----------------------------------------------------------------------------
(* rustc_mir::dataflow as instantiated by SeenInit *)

\* BottomValue::BOTTOM_VALUE
BOTTOM_VALUE == FALSE

\* BottomValue::join with a single bit: rustc unions the incoming set into the
\* entry set when BOTTOM_VALUE is false and intersects when it is true.
join(inout_set, in_set) ==
    IF BOTTOM_VALUE = FALSE THEN inout_set \/ in_set ELSE inout_set /\ in_set

\* Variant: the start block is entered with the bit set.
start_block_effect_seen(on_entry) == TRUE

\* SeenInit::start_block_effect: leaves the entry set of bb0 as it is.
start_block_effect(on_entry) == on_entry

RECURSIVE check_init(_, _)
RECURSIVE check_init_inner(_, _)
RECURSIVE scan_blocks(_, _, _, _)

\* SeenInit::terminator_effect: does the terminator of `block` gen the bit?
\* call_stack is the clone the SeenInit struct holds; the clone handed to
\* check_init is dropped afterwards.
terminator_effect(def_id, call_stack, block) ==
    LET t == terminator(def_id, block)
    IN  IF t.kind # "Call" THEN FALSE
        ELSE IF ~is_fn_def(t.callee) THEN FALSE
        ELSE check_init(t.callee, call_stack).result = InitState_Init

\* The state at the end of a block: entry set plus the gen bit (no kills).
exit_set(on_entry, gen, block) == on_entry[block] \/ gen[block]

RECURSIVE join_all(_, _, _, _)
\* Propagation into the entry set of one block from the set `preds` of blocks.
join_all(inout, preds, on_entry, gen) ==
    IF preds = {} THEN inout
    ELSE LET p == CHOOSE q \in preds : TRUE
         IN  join_all(join(inout, exit_set(on_entry, gen, p)),
                      preds \ {p}, on_entry, gen)

\* One pass over every block, propagating its exit state into its successors.
propagate(def_id, on_entry, gen) ==
    [b \in basic_blocks(def_id) |->
        join_all(on_entry[b],
                 {p \in basic_blocks(def_id) : b \in terminator(def_id, p).targets},
                 on_entry, gen)]

RECURSIVE walk_cfg(_, _, _)
\* Iteration to the fixed point (the work queue starts with every block).
walk_cfg(def_id, on_entry, gen) ==
    LET next == propagate(def_id, on_entry, gen)
    IN  IF next = on_entry THEN on_entry ELSE walk_cfg(def_id, next, gen)

RECURSIVE gen_sets(_, _, _)
\* The gen bits of the blocks from `block` on, terminator_effect run on each
\* block in turn.
gen_sets(def_id, call_stack, block) ==
    IF block > Len(optimized_mir[def_id]) THEN <<>>
    ELSE <<terminator_effect(def_id, call_stack, block)>>
            \o gen_sets(def_id, call_stack, block + 1)

\* do_dataflow(tcx, mir, def_id, &[], &dead_unwinds, SeenInit {..}, ..):
\* the entry set of every block.
do_dataflow(def_id, call_stack) ==
    LET gen == gen_sets(def_id, call_stack, 1)
        bottom == [b \in basic_blocks(def_id) |->
                    IF b = 1 THEN start_block_effect(BOTTOM_VALUE) ELSE BOTTOM_VALUE]
    IN  walk_cfg(def_id, bottom, gen)

\* cursor.seek(loc); cursor.contains(NoIdx) with loc the terminator of `block`:
\* the state before the terminator's effect, which is the block's entry set
\* because statements have no effect.
cursor_contains(seen_init, block) == seen_init[block]

----------------------------------------------------------------------------
(* The call-graph walker.  check_init takes the call stack by &mut; the    *)
(* operators return the verdict together with the call stack as the call   *)
(* leaves it.                                                              *)

Ret(result, call_stack) == [result |-> result, call_stack |-> call_stack]

\* Variant: the recursion check never bails out.
already_on_stack_never(def_id, call_stack) == FALSE

\* call_stack.insert(def_id) returned false
already_on_stack(def_id, call_stack) == def_id \in call_stack

\* Variant: the function is left on the call stack.
stack_remove_skipped(call_stack, def_id) == call_stack

\* call_stack.remove(&def_id)
stack_remove(call_stack, def_id) == call_stack \ {def_id}

\* Variant: the call site is put in front of the callee's spans.
span_push_front(span, loc) == <<loc>> \o span

\* span.push(terminator.source_info.span)
span_push(span, loc) == Append(span, loc)

\* Variant: a call of foo is reported whatever the dataflow state.
foo_before_init_unseen(seen, callee_id) == callee_id = "foo"

\* Variant: any call made before init is reported.
foo_before_init_any(seen, callee_id) == ~seen

\* !cursor.contains(NoIdx) && tcx.is_diagnostic_item(Symbol::intern("foo"), callee_id)
foo_before_init(seen, callee_id) == ~seen /\ is_foo(callee_id)

check_init(def_id, call_stack) ==
    IF already_on_stack(def_id, call_stack)
    THEN Ret(NotInit, call_stack)
    ELSE LET r == check_init_inner(def_id, call_stack \cup {def_id})
         IN  Ret(r.result, stack_remove(r.call_stack, def_id))

\* The loop `for (block, bbdata) in mir.basic_blocks().iter_enumerated()`
\* from `block` on.
scan_blocks(def_id, call_stack, seen_init, block) ==
    IF block > Len(optimized_mir[def_id]) THEN Ret(NotInit, call_stack)
    ELSE LET t == terminator(def_id, block)
         IN  IF t.kind # "Call"
             THEN scan_blocks(def_id, call_stack, seen_init, block + 1)
             ELSE IF ~is_fn_def(t.callee)
             THEN Ret(NeedsInit(<<span_of(def_id, block)>>), call_stack)
             ELSE IF foo_before_init(cursor_contains(seen_init, block), t.callee)
             THEN Ret(NeedsInit(<<span_of(def_id, block)>>), call_stack)
             ELSE LET r == check_init(t.callee, call_stack)
                  IN  IF r.result.state = "NeedsInit"
                      THEN Ret(NeedsInit(span_push(r.result.span, span_of(def_id, block))),
                               r.call_stack)
                      ELSE scan_blocks(def_id, r.call_stack, seen_init, block + 1)

\* Variant: MIR availability is tested before the `init` diagnostic item.
check_init_inner_mir_first(def_id, call_stack) ==
    IF def_id \notin mir_available THEN Ret(NotInit, call_stack)
    ELSE IF is_init(def_id) THEN Ret(InitState_Init, call_stack)
    ELSE scan_blocks(def_id, call_stack, do_dataflow(def_id, call_stack), 1)

check_init_inner(def_id, call_stack) ==
    IF is_init(def_id) THEN Ret(InitState_Init, call_stack)
    ELSE IF def_id \notin mir_available THEN Ret(NotInit, call_stack)
    ELSE scan_blocks(def_id, call_stack, do_dataflow(def_id, call_stack), 1)

----------------------------------------------------------------------------------------------------------------------------------------
(* The crates the lint is run on *)

\* Terminators a block `b` of a body with `n` blocks may end in.  A call
\* returns to the next block; a call in the last block diverges.
Terminators(n, b) ==
    {Call(c, IF b < n THEN {b + 1} ELSE {}) : c \in DefIds \cup {FnPtr}}
    \cup {Goto(t) : t \in 2..n}
    \cup {SwitchInt({t1, t2}) : t1 \in 2..n, t2 \in 2..n}
    \cup {Return}

RECURSIVE ReachableFrom(_, _)
\* The blocks of `body` reachable from the blocks in `seen`.
ReachableFrom(body, seen) ==
    LET more == seen \cup UNION {body[b].targets : b \in seen}
    IN  IF more = seen THEN seen ELSE ReachableFrom(body, more)

\* optimized_mir has no unreachable blocks (SimplifyCfg removed them), no
\* edge leads back to the start block bb0 (loop headers are blocks of their
\* own), and a SwitchInt has two distinct targets.
WellFormed(body) ==
    /\ ReachableFrom(body, {1}) = DOMAIN body
    /\ \A b \in DOMAIN body : 1 \notin body[b].targets
    /\ \A b \in DOMAIN body :
            body[b].kind = "SwitchInt" => Cardinality(body[b].targets) = 2

RECURSIVE BlockSeqs(_, _)
\* The sequences of terminators for the blocks b..n of a body of n blocks.
BlockSeqs(n, b) ==
    IF b > n THEN {<<>>}
    ELSE {<<t>> \o rest : t \in Terminators(n, b), rest \in BlockSeqs(n, b + 1)}

Bodies(n) == {body \in BlockSeqs(n, 1) : WellFormed(body)}

\* Every MIR body of at most `n` blocks.
BodiesUpTo(n) == UNION {Bodies(k) : k \in 1..n}

Crate(main, init, foo, bar) == [main |-> main, init |-> init, foo |-> foo, bar |-> bar]

\* tests/ui/init_before_foo3.rs: main, bar, foo, init
Test3Main == <<Call("bar", {2}), Call("init", {3}), Return>>
Test3Bar == <<Call("foo", {2}), Return>>
EmptyFn == <<Return>>
Test3 == Crate(Test3Main, EmptyFn, EmptyFn, Test3Bar)

\* tests/ui/init_before_foo4.rs: main, false_value (here `bar`), foo, init
Test4Main ==
    <<Call("bar", {2}), SwitchInt({3, 4}), Call("init", {4}), Call("foo", {5}), Return>>
Test4 == Crate(Test4Main, EmptyFn, EmptyFn, EmptyFn)

\* Crates with an arbitrary `main` around the helpers of test 3.
MainCrates ==
    {Crate(m, EmptyFn, EmptyFn, Test3Bar) : m \in BodiesUpTo(MaxBlocks)}

\* Bodies of `main` in the crates with an arbitrary helper `bar`.
MainBodies ==
    { Test3Main,
      Test4Main,
      <<Call("init", {2}), Call("bar", {3}), Return>>,
      <<Call("init", {2}), Call("foo", {3}), Return>> }

\* Bodies of `foo` and `init`, and the functions whose MIR is not available,
\* in the crates with an arbitrary helper `bar`.
Libs ==
    { [foo |-> EmptyFn, init |-> EmptyFn, no_mir |-> {}],
      [foo |-> <<Call(FnPtr, {2}), Return>>, init |-> EmptyFn, no_mir |-> {}],
      [foo |-> <<Call("foo", {2}), Return>>, init |-> <<Call("foo", {2}), Return>>,
       no_mir |-> {}],
      [foo |-> <<Call(FnPtr, {2}), Return>>, init |-> <<Call(FnPtr, {2}), Return>>,
       no_mir |-> {"foo", "init"}],
      [foo |-> <<Call("bar", {2}), Return>>, init |-> <<Call("foo", {2}), Return>>,
       no_mir |-> {"bar"}] }

Init ==
    /\ pc = "start"
    /\ lint = NotInit
    /\ stack = <<>>
    /\ \/ /\ optimized_mir \in MainCrates
          /\ mir_available = DefIds
       \/ \E m \in MainBodies, b \in BodiesUpTo(MaxBlocks - 1), l \in Libs :
            /\ optimized_mir = Crate(m, l.init, l.foo, b)
            /\ mir_available = DefIds \ l.no_mir

\* Pass::check_crate
check_crate ==
    /\ pc = "start"
    /\ lint' = check_init(main_fn, {}).result
    /\ pc' = "done"
    /\ UNCHANGED <<optimized_mir, mir_available, stack>>

Next == check_crate

Spec == Init /\ [][Next]_vars

----------------------------------------------------------------------------
(* The same analysis one step at a time, with the activations of           *)
(* check_init on an explicit stack.  An activation records                 *)
(*   def_id, call_stack  the arguments (call_stack is the set the &mut     *)
(*                       refers to, or the clone made by terminator_effect)*)
(*   entered_with        call_stack as it was when the call started        *)
(*   by_ref              TRUE when the caller passed its own call_stack    *)
(*   at                  the position in check_init / check_init_inner     *)
(*   block               the block do_dataflow or the scan loop is at      *)
(*   cloned              SeenInit.call_stack, the clone do_dataflow got    *)
(*   gen                 the gen bits terminator_effect has produced       *)
(*   seen_init           the entry sets do_dataflow computed               *)
(*   result              the InitState to return                           *)

Activation(def_id, call_stack, by_ref) ==
    [def_id |-> def_id, call_stack |-> call_stack, entered_with |-> call_stack,
     by_ref |-> by_ref, at |-> "check_init", block |-> 1, cloned |-> {},
     gen |-> <<>>,
     seen_init |-> <<>>, result |-> NotInit]

Top == stack[Len(stack)]
SetTop(frame) == [stack EXCEPT ![Len(stack)] = frame]
Push(frame, callee) == Append(SetTop(frame), callee)

\* No run nests more activations than this; it keeps the state space finite.
DepthCap == Cardinality(DefIds) + 2

Running == pc = "running" /\ stack # <<>>

\* check_crate calls check_init(cx.tcx, main_fn, &mut call_stack)
begin_check_crate ==
    /\ pc = "start"
    /\ pc' = "running"
    /\ stack' = <<Activation(main_fn, {}, TRUE)>>
    /\ UNCHANGED <<optimized_mir, mir_available, lint>>

\* check_init: `if !call_stack.insert(def_id) { return InitState::NotInit; }`
enter_check_init ==
    /\ Running /\ Top.at = "check_init"
    /\ stack' = IF already_on_stack(Top.def_id, Top.call_stack)
                THEN SetTop([Top EXCEPT !.at = "return", !.result = NotInit])
                ELSE SetTop([Top EXCEPT !.at = "inner",
                                        !.call_stack = @ \cup {Top.def_id}])
    /\ UNCHANGED <<optimized_mir, mir_available, pc, lint>>

\* check_init_inner up to the call of do_dataflow
enter_check_init_inner ==
    /\ Running /\ Top.at = "inner"
    /\ stack' = IF is_init(Top.def_id)
                THEN SetTop([Top EXCEPT !.at = "remove", !.result = InitState_Init])
                ELSE IF Top.def_id \notin mir_available
                THEN SetTop([Top EXCEPT !.at = "remove", !.result = NotInit])
                ELSE SetTop([Top EXCEPT !.at = "gen", !.block = 1,
                                        !.cloned = Top.call_stack])
    /\ UNCHANGED <<optimized_mir, mir_available, pc, lint>>

\* do_dataflow: terminator_effect of the next block; a call with a FnDef
\* callee calls check_init on a clone of the call stack.
dataflow_terminator_effect ==
    /\ Running /\ Top.at = "gen"
    /\ Top.block <= Len(optimized_mir[Top.def_id])
    /\ LET t == terminator(Top.def_id, Top.block)
       IN  IF t.kind = "Call" /\ is_fn_def(t.callee)
           THEN /\ Len(stack) < DepthCap
                /\ stack' = Push([Top EXCEPT !.at = "gen_wait"],
                                 Activation(t.callee, Top.cloned, FALSE))
           ELSE stack' = SetTop([Top EXCEPT !.gen = Append(@, FALSE),
                                            !.block = @ + 1])
    /\ UNCHANGED <<optimized_mir, mir_available, pc, lint>>

\* do_dataflow: all gen bits known, propagate to the fixed point
dataflow_fixpoint ==
    /\ Running /\ Top.at = "gen"
    /\ Top.block > Len(optimized_mir[Top.def_id])
    /\ stack' = SetTop([Top EXCEPT
                    !.seen_init = walk_cfg(Top.def_id,
                        [b \in basic_blocks(Top.def_id) |->
                            IF b = 1 THEN start_block_effect(BOTTOM_VALUE)
                            ELSE BOTTOM_VALUE],
                        Top.gen),
                    !.at = "scan", !.block = 1])
    /\ UNCHANGED <<optimized_mir, mir_available, pc, lint>>

\* the scan loop of check_init_inner: the match on terminator.kind, and for a
\* call with a FnDef callee cursor.seek(loc), which runs terminator_effect
\* for the block once more
scan_terminator ==
    /\ Running /\ Top.at = "scan"
    /\ IF Top.block > Len(optimized_mir[Top.def_id])
       THEN stack' = SetTop([Top EXCEPT !.at = "remove", !.result = NotInit])
       ELSE LET t == terminator(Top.def_id, Top.block)
            IN  IF t.kind # "Call"
                THEN stack' = SetTop([Top EXCEPT !.block = @ + 1])
                ELSE IF ~is_fn_def(t.callee)
                THEN stack' = SetTop([Top EXCEPT !.at = "remove",
                            !.result = NeedsInit(<<span_of(Top.def_id, Top.block)>>)])
                ELSE /\ Len(stack) < DepthCap
                     /\ stack' = Push([Top EXCEPT !.at = "seek_wait"],
                                      Activation(t.callee, Top.cloned, FALSE))
    /\ UNCHANGED <<optimized_mir, mir_available, pc, lint>>

\* the scan loop: `if !cursor.contains(NoIdx) && .. "foo" ..` and otherwise
\* the call check_init(tcx, callee_id, call_stack)
scan_call ==
    /\ Running /\ Top.at = "check"
    /\ LET t == terminator(Top.def_id, Top.block)
       IN  IF foo_before_init(cursor_contains(Top.seen_init, Top.block), t.callee)
           THEN stack' = SetTop([Top EXCEPT !.at = "remove",
                            !.result = NeedsInit(<<span_of(Top.def_id, Top.block)>>)])
           ELSE /\ Len(stack) < DepthCap
                /\ stack' = Push([Top EXCEPT !.at = "walk_wait"],
                                 Activation(t.callee, Top.call_stack, TRUE))
    /\ UNCHANGED <<optimized_mir, mir_available, pc, lint>>

\* check_init: `call_stack.remove(&def_id); result`
leave_check_init ==
    /\ Running /\ Top.at = "remove"
    /\ stack' = SetTop([Top EXCEPT !.at = "return",
                                   !.call_stack = stack_remove(@, Top.def_id)])
    /\ UNCHANGED <<optimized_mir, mir_available, pc, lint>>

\* A nested check_init returns to the activation that called it.
return_to_caller ==
    /\ Running /\ Top.at = "return" /\ Len(stack) > 1
    /\ LET callee == Top
           caller == stack[Len(stack) - 1]
           rest == SubSeq(stack, 1, Len(stack) - 2)
           \* a callee that got the caller's &mut leaves its call stack behind
           cs == IF callee.by_ref THEN callee.call_stack ELSE caller.call_stack
       IN  stack' = Append(rest,
             CASE caller.at = "gen_wait" ->
                    [caller EXCEPT !.at = "gen", !.block = @ + 1,
                                   !.gen = Append(@, callee.result = InitState_Init)]
               [] caller.at = "seek_wait" ->
                    [caller EXCEPT !.at = "check"]
               [] caller.at = "walk_wait" ->
                    IF callee.result.state = "NeedsInit"
                    THEN [caller EXCEPT !.at = "remove", !.call_stack = cs,
                            !.result = NeedsInit(span_push(callee.result.span,
                                            span_of(caller.def_id, caller.block)))]
                    ELSE [caller EXCEPT !.at = "scan", !.block = @ + 1,
                                        !.call_stack = cs])
    /\ UNCHANGED <<optimized_mir, mir_available, pc, lint>>

\* check_init(main_fn, ..) returns to check_crate.
end_check_crate ==
    /\ Running /\ Top.at = "return" /\ Len(stack) = 1
    /\ lint' = Top.result
    /\ pc' = "done"
    /\ UNCHANGED <<optimized_mir, mir_available, stack>>

\* Helper functions for the step-wise runs: the helpers of test 3, and
\* helpers that call back into their callers and into themselves.
StepLibs ==
    { [bar |-> Test3Bar, foo |-> EmptyFn],
      [bar |-> <<Call(main_fn, {2}), Call("bar", {})>>,
       foo |-> <<Call("bar", {2}), Goto(2)>>] }

StepCrates ==
    {Crate(m, EmptyFn, l.foo, l.bar) : m \in BodiesUpTo(MaxBlocks - 1), l \in StepLibs}
    \cup {Test3, Test4}

StepInit ==
    /\ pc = "start"
    /\ lint = NotInit
    /\ stack = <<>>
    /\ optimized_mir \in StepCrates
    /\ mir_available \in {DefIds, DefIds \ {"bar"}}

StepNext ==
    \/ begin_check_crate
    \/ enter_check_init
    \/ enter_check_init_inner
    \/ dataflow_terminator_effect
    \/ dataflow_fixpoint
    \/ scan_terminator
    \/ scan_call
    \/ leave_check_init
    \/ return_to_caller
    \/ end_check_crate

\* The lint runs in one thread and never waits: a step that can be taken is.
StepSpec == StepInit /\ [][StepNext]_vars /\ WF_vars(StepNext)

----------------------------------------------------------------------------
(* Reference notions the properties are stated with: paths through the     *)
(* control-flow graphs and the call graph of the crate.                    *)

\* The functions the walker analyses the body of.
HasBody(def_id) == def_id \in mir_available /\ ~is_init(def_id)

Blocks(def_id) == DOMAIN optimized_mir[def_id]

IsCall(def_id, b) == optimized_mir[def_id][b].kind = "Call"
CalleeOf(def_id, b) == optimized_mir[def_id][b].callee
TargetsOf(def_id, b) == optimized_mir[def_id][b].targets

CallsTo(def_id, callee) ==
    {b \in Blocks(def_id) : IsCall(def_id, b) /\ CalleeOf(def_id, b) = callee}

RECURSIVE AvoidingInit(_, _)
\* The blocks reachable from the blocks `seen` on a path that leaves no
\* block calling `init`.
AvoidingInit(def_id, seen) ==
    LET more == seen \cup UNION {TargetsOf(def_id, b) :
                                    b \in seen \ CallsTo(def_id, "init")}
    IN  IF more = seen THEN seen ELSE AvoidingInit(def_id, more)

\* Every path from the start block to block `b` passes a call to `init`
\* before it reaches the terminator of `b`.
MustPassInit(def_id, b) == b \notin AvoidingInit(def_id, {1})

\* Some path from the start block to block `b` passes a call to `init`
\* before it reaches the terminator of `b`.
MayPassInit(def_id, b) ==
    \E p \in CallsTo(def_id, "init") :
        b \in ReachableFrom(optimized_mir[def_id], TargetsOf(def_id, p))

\* Call-graph edges: the callees named in the available body of def_id.
Callees(def_id) ==
    IF def_id \in mir_available
    THEN {CalleeOf(def_id, b) : b \in {c \in Blocks(def_id) : IsCall(def_id, c)}}
    ELSE {}

RECURSIVE CallGraphFrom(_)
\* The functions (and FnPtr, for indirect calls) reachable in the call graph.
CallGraphFrom(seen) ==
    LET more == seen \cup UNION {Callees(f) : f \in seen \cap DefIds}
    IN  IF more = seen THEN seen ELSE CallGraphFrom(more)

\* Summaries of the executions that start a function before any call to `init`.
\* S.bad:  the functions in which such an execution reaches a call to `foo`
\*         without having passed a call to `init`;
\* S.exit: the functions such an execution can return from without having
\*         passed a call to `init`.
RECURSIVE UninitBlocks(_, _, _)
UninitBlocks(def_id, S, seen) ==
    LET succ(b) ==
            IF ~IsCall(def_id, b) THEN TargetsOf(def_id, b)
            ELSE IF CalleeOf(def_id, b) \in S.exit /\ ~is_init(CalleeOf(def_id, b))
            THEN TargetsOf(def_id, b)
            ELSE {}
        more == seen \cup UNION {succ(b) : b \in seen}
    IN  IF more = seen THEN seen ELSE UninitBlocks(def_id, S, more)

SummaryStep(S) ==
    [bad |-> {f \in DefIds :
                \E b \in UninitBlocks(f, S, {1}) :
                    /\ IsCall(f, b)
                    /\ \/ is_foo(CalleeOf(f, b))
                       \/ CalleeOf(f, b) \in S.bad /\ ~is_init(CalleeOf(f, b))},
     exit |-> {f \in DefIds :
                \E b \in UninitBlocks(f, S, {1}) :
                    optimized_mir[f][b].kind = "Return"}]

RECURSIVE Summaries(_)
Summaries(S) ==
    LET T == SummaryStep(S)
    IN  IF T = S THEN S ELSE Summaries(T)

\* Some execution path from the first block of `main` reaches a call to `foo`
\* without having passed a call to `init`.
UnprotectedFooCall == main_fn \in Summaries([bad |-> {}, exit |-> {}]).bad

\* All functions reachable from main have MIR and no call is indirect.
ClosedWorld == CallGraphFrom({main_fn}) \subseteq mir_available

IsTest3 == optimized_mir = Test3 /\ mir_available = DefIds
IsTest4 == optimized_mir = Test4 /\ mir_available = DefIds

----------------------------------------------------------------------------
(* Properties *)

\* C1: if all functions reachable from main have bodies and known callees and
\* some execution path reaches a call to foo without having passed a call to
\* init, check_crate reports NeedsInit.
C1_Soundness ==
    (pc = "done" /\ ClosedWorld /\ UnprotectedFooCall) => lint.state = "NeedsInit"

\* The blocks with an edge to block `b`.
Preds(def_id, b) == {p \in Blocks(def_id) : b \in TargetsOf(def_id, p)}

\* C2: the bit coming into a block is the AND of the bits its predecessors
\* leave, so it is set before a terminator only if every path from the start
\* block passes a call to init; and on tests/ui/init_before_foo4.rs (init on
\* one branch, foo after the join) the verdict is NeedsInit at the foo call.
C2_MustAnalysis ==
    pc = "done" =>
        LET seen_init == do_dataflow(main_fn, {main_fn})
        IN  /\ \A b \in Blocks(main_fn) :
                Preds(main_fn, b) # {} =>
                    seen_init[b] =
                        \A p \in Preds(main_fn, b) :
                            seen_init[p] \/ terminator_effect(main_fn, {main_fn}, p)
            /\ \A b \in Blocks(main_fn) : seen_init[b] => MustPassInit(main_fn, b)
            /\ IsTest4 => lint = NeedsInit(<<span_of(main_fn, 4)>>)

\* C3: a NeedsInit verdict of a function lists the violating call chain
\* innermost first: its last span is a call in the function itself, and what
\* precedes it is the NeedsInit verdict of that call's callee; a chain of one
\* span is a call to foo or an indirect call.  Conversely a scanned call whose
\* callee returns NeedsInit makes the function return the callee's spans
\* followed by the call, unless an earlier block already returned.  On
\* tests/ui/init_before_foo3.rs the lint gets [call of foo in bar, call of bar
\* in main].
C3_CallChain ==
    pc = "done" =>
        /\ \A f \in DefIds, cs \in SUBSET DefIds :
            LET r == check_init(f, cs).result
                n == Len(r.span)
            IN  r.state = "NeedsInit" =>
                    /\ n >= 1
                    /\ r.span[n][1] = f
                    /\ IsCall(f, r.span[n][2])
                    /\ n = 1 => \/ ~is_fn_def(CalleeOf(f, r.span[n][2]))
                                \/ is_foo(CalleeOf(f, r.span[n][2]))
                    /\ n > 1 =>
                        /\ is_fn_def(CalleeOf(f, r.span[n][2]))
                        /\ check_init(CalleeOf(f, r.span[n][2]), cs \cup {f}).result
                                = NeedsInit(SubSeq(r.span, 1, n - 1))
        /\ \A f \in DefIds, cs \in SUBSET DefIds :
            (HasBody(f) /\ f \notin cs) =>
                LET r == check_init(f, cs).result
                    seen_init == do_dataflow(f, cs \cup {f})
                IN  \A b \in Blocks(f) :
                        LET g == CalleeOf(f, b)
                            v == check_init(g, cs \cup {f}).result
                        IN  (/\ IsCall(f, b) /\ is_fn_def(g)
                             /\ is_foo(g) => seen_init[b]
                             /\ v.state = "NeedsInit")
                            => /\ r.state = "NeedsInit"
                               /\ \/ r.span = Append(v.span, span_of(f, b))
                                  \/ r.span[Len(r.span)][2] < b
        /\ IsTest3 => lint = NeedsInit(<<span_of("bar", 1), span_of(main_fn, 1)>>)

C3_Witness ==
    /\ pc = "done"
    /\ IsTest3
    /\ lint = NeedsInit(<<span_of("bar", 1), span_of(main_fn, 1)>>)

\* main calls only init and foo, and every call of foo in main is reached
\* only through a call of init in main.
EntryInitThenFoo ==
    /\ main_fn \in mir_available
    /\ Callees(main_fn) = {"init", "foo"}
    /\ \A b \in CallsTo(main_fn, "foo") : MustPassInit(main_fn, b)

\* C4 as claimed: when main calls init and only afterwards foo, the lint does
\* not fire, whatever the bodies of foo and init contain.
C4_NoFalsePositive ==
    (pc = "done" /\ EntryInitThenFoo) => lint.state # "NeedsInit"

\* C4 amended: when main calls init and only afterwards foo, the lint does
\* not fire unless the analysis of foo's own body reports NeedsInit; the body
\* of init does not matter.
C4_NoFalsePositiveAmended ==
    (pc = "done" /\ EntryInitThenFoo
        /\ check_init("foo", {main_fn}).result.state # "NeedsInit")
    => lint.state # "NeedsInit"

C4_Witness ==
    /\ pc = "done"
    /\ EntryInitThenFoo
    /\ Callees("init") # {}
    /\ Callees("foo") # {}
    /\ check_init("foo", {main_fn}).result.state # "NeedsInit"
    /\ lint = NotInit

\* C5 as claimed: no call of foo reachable in the call graph from main means
\* no NeedsInit.
C5_NoFooNoLint ==
    (pc = "done" /\ "foo" \notin CallGraphFrom({main_fn})) => lint.state # "NeedsInit"

\* C5 amended: no call of foo and no indirect call reachable in the call
\* graph from main means no NeedsInit.
C5_NoFooNoFnPtrNoLint ==
    (pc = "done" /\ "foo" \notin CallGraphFrom({main_fn})
        /\ FnPtr \notin CallGraphFrom({main_fn}))
    => lint.state # "NeedsInit"

C5_Witness ==
    /\ pc = "done"
    /\ "foo" \notin CallGraphFrom({main_fn})
    /\ FnPtr \notin CallGraphFrom({main_fn})
    /\ {"bar", "init"} \subseteq CallGraphFrom({main_fn})
    /\ Callees("bar") # {}
    /\ lint = NotInit

RECURSIVE WalkedFrom(_)
\* The functions reachable from `seen` through calls in bodies the walker scans.
WalkedFrom(seen) ==
    LET more == seen \cup UNION {Callees(f) \cap DefIds : f \in {g \in seen : HasBody(g)}}
    IN  IF more = seen THEN seen ELSE WalkedFrom(more)

\* C7: a function whose body is scanned and holds an indirect call gets
\* NeedsInit, at that call unless an earlier block of the function produced
\* the violation; the indirect call never gens the dataflow bit; and an
\* indirect call in a body the walk from main reaches makes the lint fire.
C7_IndirectCall ==
    pc = "done" =>
        /\ \A f \in DefIds, cs \in SUBSET DefIds :
            (HasBody(f) /\ f \notin cs) =>
                \A b \in CallsTo(f, FnPtr) :
                    LET r == check_init(f, cs).result
                    IN  /\ r.state = "NeedsInit"
                        /\ \/ r.span = <<span_of(f, b)>>
                           \/ r.span[Len(r.span)][2] < b
                        /\ ~terminator_effect(f, cs \cup {f}, b)
        /\ (\E g \in WalkedFrom({main_fn}) : HasBody(g) /\ CallsTo(g, FnPtr) # {})
                => lint.state = "NeedsInit"

C7_Witness ==
    /\ pc = "done"
    /\ CallsTo(main_fn, "init") = {1}
    /\ CallsTo(main_fn, "bar") = {2}
    /\ CallsTo("bar", FnPtr) = {2}
    /\ lint = NeedsInit(<<span_of("bar", 2), span_of(main_fn, 2)>>)

\* C9: check_init returns Init exactly for init when it is not on the call
\* stack, whether or not init has MIR and whatever its body holds; so the
\* dataflow bit is set at a block only if a call of init in the same body
\* lies on a path to it.
C9_InitVerdict ==
    pc = "done" =>
        \A f \in DefIds, cs \in SUBSET DefIds :
            /\ check_init(f, cs).result = InitState_Init <=> (is_init(f) /\ f \notin cs)
            /\ check_init(f, cs).result.state \in {"Init", "NotInit", "NeedsInit"}
            /\ (HasBody(f) /\ f \notin cs) =>
                    LET seen_init == do_dataflow(f, cs \cup {f})
                    IN  \A b \in Blocks(f) : seen_init[b] => MayPassInit(f, b)

C9_Witness ==
    /\ pc = "done"
    /\ "init" \notin mir_available
    /\ CallsTo("init", FnPtr) # {}
    /\ EntryInitThenFoo
    /\ check_init("init", {main_fn}).result = InitState_Init
    /\ lint = NotInit

\* A scanned function holding an indirect call, or a call of foo that no call
\* of init in the same body precedes.
BadHelper(g) ==
    /\ HasBody(g)
    /\ \E b \in Blocks(g) :
        /\ IsCall(g, b)
        /\ \/ ~is_fn_def(CalleeOf(g, b))
           \/ is_foo(CalleeOf(g, b)) /\ ~MayPassInit(g, b)

\* C10: every analysed body starts with the bit unset, whatever the caller
\* has seen; so a caller of a function holding an indirect call or an
\* unpreceded call of foo gets NeedsInit, even if the caller called init first.
C10_CalleeIndependent ==
    pc = "done" =>
        /\ \A f \in DefIds, cs \in SUBSET DefIds :
            (HasBody(f) /\ f \notin cs) => ~do_dataflow(f, cs \cup {f})[1]
        /\ \A f \in DefIds, g \in DefIds, cs \in SUBSET DefIds :
            (HasBody(f) /\ BadHelper(g) /\ f \notin cs /\ g \notin cs \cup {f}
                /\ CallsTo(f, g) # {})
            => check_init(f, cs).result.state = "NeedsInit"

C10_Witness ==
    /\ pc = "done"
    /\ CallsTo(main_fn, "init") = {1}
    /\ CallsTo(main_fn, "bar") = {2}
    /\ CallsTo("bar", "foo") = {1}
    /\ do_dataflow(main_fn, {main_fn})[2]
    /\ lint = NeedsInit(<<span_of("bar", 1), span_of(main_fn, 2)>>)

\* The step-wise run and the recursive definition agree on the verdict.
StepAgrees == pc = "done" => lint = check_init(main_fn, {}).result

\* The functions under analysis: activations past the recursion check that
\* have not yet left check_init.
Analysed == {i \in 1..Len(stack) : stack[i].at \notin {"check_init", "return"}}

\* No function is under analysis twice at once, and every activation was
\* entered with its callers in the call stack.
BoundedDepth ==
    /\ Cardinality(Analysed) <= Cardinality(DefIds)
    /\ \A i \in Analysed, j \in Analysed : i < j => stack[i].def_id # stack[j].def_id
    /\ \A i \in 1..Len(stack), j \in 1..Len(stack) :
            i < j => stack[i].def_id \in stack[j].entered_with

\* C6: the analysis of every crate, recursive call graphs and looping control
\* flow included, never has more functions under analysis than the crate has
\* (check_init never descends into a function on the call stack) and ends
\* with a verdict.
C6_Terminates ==
    []BoundedDepth /\ <>(pc = "done" /\ lint.state \in {"NotInit", "NeedsInit"})

C6_Witness ==
    /\ pc = "done"
    /\ main_fn \in Callees("bar") /\ "bar" \in Callees("bar")
    /\ Callees(main_fn) = {"bar", main_fn}
    /\ \E b \in Blocks("foo") : b \in TargetsOf("foo", b)

\* C8: check_init leaves the call stack as it found it, on every way out;
\* while the body of a function is analysed the call stack is the one the
\* call started with plus the function; a call made by terminator_effect on a
\* clone leaves the caller's call stack alone.
C8_CallStackDiscipline ==
    \A i \in 1..Len(stack) :
        LET f == stack[i]
        IN  /\ f.at \in {"check_init", "return"} => f.call_stack = f.entered_with
            /\ f.at \notin {"check_init", "return"} =>
                    /\ f.def_id \notin f.entered_with
                    /\ f.call_stack = f.entered_with \cup {f.def_id}
            /\ i < Len(stack) =>
                    /\ stack[i + 1].entered_with = f.call_stack
                    /\ ~stack[i + 1].by_ref => f.cloned = f.call_stack

\* A callee that was handed the walker's own call stack has returned NeedsInit
\* from the middle of its scan, and the caller has its call stack back.
C8_Witness ==
    /\ Running
    /\ Len(stack) = 1
    /\ stack[1].at = "remove"
    /\ stack[1].result.state = "NeedsInit"
    /\ Len(stack[1].result.span) = 2
    /\ stack[1].result.span[1][2] = 1
    /\ Len(optimized_mir[stack[1].result.span[1][1]]) > 1
    /\ stack[1].call_stack = {main_fn}

====
